---- MODULE Spec2Model ----
(***************************************************************************)
(* Model of bearer's settings package (rule and policy data model, YAML    *)
(* decoding of rule patterns and pattern filters, Rule accessors,          *)
(* FromOptions) and of the ordering of the findings of a report.           *)
(*                                                                         *)
(* The module holds several specifications over one set of variables:      *)
(*   SpecYaml    decoding of `patterns` entries and pattern filters        *)
(*   SpecRule    Rule.GetSeverity and Rule.Language                        *)
(*   SpecConfig  FromOptions                                               *)
(*   SpecReport  emission order of the detections of one file              *)
(*   SpecOutput  GetData followed by FormatOutput                          *)
(* A specification leaves the variables of the other parts at Idle.        *)
(***************************************************************************)
EXTENDS Naturals, Sequences, FiniteSets

VARIABLES
    target,     \* what the YAML decoder is decoding into: "filter" | "patterns"
    input,      \* the YAML node handed to the decoder
    decoded,    \* the decoder's result: [err, val]
    yamlPc,     \* "start" | "done"
    rule,       \* the Rule a method is called on
    ret,        \* what the method returned: [panic, value]
    rulePc,     \* "start" | "GetSeverity" | "Language": the method that returned
    opts,       \* FromOptions' flag.Options
    env,        \* what FromOptions' callees find: loadRules, the embedded
                \* policies.yml and policies/ files, the ignore file
    policies,   \* FromOptions' local policies map, as it returns
    config,     \* the Config FromOptions returned
    err,        \* the error FromOptions returned ("nil" for none)
    configPc,   \* "start" | "done"
    nodeLine,   \* the scanned file: the start line of each node, by pre-order index
    store,      \* the Detection Store of the file, in insertion order
    report,     \* the findings emitted for the file, in report order
    reportPc,   \* "scanning" | "emitted"
    outConfig,  \* the settings.Config handed to GetData and FormatOutput
    outEnv,     \* what the stages, the upload and the formatter will do
    calls,      \* the calls GetData has made to the report packages, in order
    data,       \* the data pointer GetData returned: <<>> for nil, else <<ReportData>>
    dataErr,    \* the error GetData returned ("nil" for none)
    client,     \* what config.Client points to once GetData has returned
    formatted,  \* what FormatOutput returned: [panic, str, err]
    outPc       \* "start" | "data" | "formatted"

yamlVars == <<target, input, decoded, yamlPc>>

ruleVars == <<rule, ret, rulePc>>

configVars == <<opts, env, policies, config, err, configPc>>

reportVars == <<nodeLine, store, report, reportPc>>

outputVars == <<outConfig, outEnv, calls, data, dataErr, client, formatted, outPc>>

vars == <<yamlVars, ruleVars, configVars, reportVars, outputVars>>

Idle == "idle"

(***************************************************************************)
(* YAML nodes, as gopkg.in/yaml.v3 hands them to the decoder.              *)
(***************************************************************************)
Scalar(tag, value) == [kind |-> "scalar", tag |-> tag, value |-> value]

Str(s) == Scalar("!!str", s)

Bool(s) == Scalar("!!bool", s)

Null == Scalar("!!null", "~")

Mapping(pairs) == [kind |-> "mapping", content |-> pairs]

Sequence(items) == [kind |-> "sequence", content |-> items]

IsNull(n) == n.kind = "scalar" /\ n.tag = "!!null"

HasKey(n, k) == \E i \in 1..Len(n.content) : n.content[i][1] = k

ValueOf(n, k) == n.content[CHOOSE i \in 1..Len(n.content) : n.content[i][1] = k][2]

(***************************************************************************)
(* The reference scopes.                                                   *)
(***************************************************************************)
CURSOR_STRICT_SCOPE == "cursor_strict"

CURSOR_SCOPE == "cursor"

NESTED_SCOPE == "nested"

NESTED_STRICT_SCOPE == "nested_strict"

RESULT_SCOPE == "result"

DefaultScope == NESTED_SCOPE

(***************************************************************************)
(* The decoded structures. A Go pointer is a sequence of length 0 (nil) or *)
(* 1; Contains, a pointer to bool, is "nil", "true" or "false".           *)
(***************************************************************************)
ZeroPatternFilter ==
    [Not |-> <<>>, Either |-> <<>>, Variable |-> "", Detection |-> "",
     Scope |-> "", Filters |-> <<>>, Contains |-> "nil"]

ZeroRulePattern == [Pattern |-> "", Focus |-> "", Filters |-> <<>>]

\* The yaml keys of the fields of PatternFilter and of RulePattern.
PatternFilterFields ==
    {"not", "either", "variable", "detection", "scope", "filters", "imports",
     "contains", "regex", "values", "length_less_than", "less_than",
     "less_than_or_equal", "greater_than", "greater_than_or_equal",
     "string_regex", "filename_regex"}

RulePatternFields == {"pattern", "focus", "filters"}

\* Whether the decoder the rule loader builds rejects a key that is no field
\* of the struct it decodes into (yaml.Decoder.KnownFields).
KnownFields == TRUE

Ok(v) == [err |-> FALSE, val |-> v]

Fail(v) == [err |-> TRUE, val |-> v]

(***************************************************************************)
(* Decoding a node into a Go string or bool (yaml.v3's scalar rules): a    *)
(* string takes the text of any scalar, a null leaves the value as it is,  *)
(* a mapping or a sequence is a type error.                                *)
(***************************************************************************)
unmarshalString(n) ==
    IF n.kind # "scalar" THEN Fail("")
    ELSE IF n.tag = "!!null" THEN Ok("")
    ELSE Ok(n.value)

YamlTrueStrings == {"y", "Y", "yes", "Yes", "YES", "on", "On", "ON"}

YamlFalseStrings == {"n", "N", "no", "No", "NO", "off", "Off", "OFF"}

unmarshalBoolPtr(n) ==
    IF n.kind # "scalar" THEN Fail("nil")
    ELSE IF n.tag = "!!null" THEN Ok("nil")
    ELSE IF n.tag = "!!bool" THEN Ok(n.value)
    ELSE IF n.tag = "!!str" /\ n.value \in YamlTrueStrings THEN Ok("true")
    ELSE IF n.tag = "!!str" /\ n.value \in YamlFalseStrings THEN Ok("false")
    ELSE Fail("nil")

(***************************************************************************)
(* PatternFilter.UnmarshalYAML.                                            *)
(***************************************************************************)
\* ApplyContains with the test of the flag inverted (`if *filter.Contains`).
ApplyContains_Inverted(filter) ==
    IF filter.Detection # ""
    THEN LET f1 == IF filter.Contains # "nil" /\ filter.Contains = "true"
                   THEN [filter EXCEPT !.Scope = CURSOR_SCOPE]
                   ELSE filter
         IN  IF f1.Scope = "" THEN [f1 EXCEPT !.Scope = NESTED_SCOPE] ELSE f1
    ELSE filter

\* The scope defaulting after the wrapper decoded.
ApplyContains(filter) ==
    IF filter.Detection # ""
    THEN LET f1 == IF filter.Contains # "nil" /\ filter.Contains = "false"
                   THEN [filter EXCEPT !.Scope = CURSOR_SCOPE]
                   ELSE filter
         IN  IF f1.Scope = "" THEN [f1 EXCEPT !.Scope = NESTED_SCOPE] ELSE f1
    ELSE filter

RECURSIVE PatternFilterUnmarshalYAML(_)
RECURSIVE unmarshalWrapper(_)
RECURSIVE unmarshalFilterFields(_, _, _)
RECURSIVE unmarshalFilterSeq(_, _, _)

\* unmarshalNestedFilter decoding the nested value as the plain struct, its
\* UnmarshalYAML not called.
unmarshalNestedFilter_Plain(n) == unmarshalWrapper(n)

\* A nested PatternFilter value that is not a null (an element of either /
\* filters, the target of not): the decoder calls the type's UnmarshalYAML.
unmarshalNestedFilter(n) == PatternFilterUnmarshalYAML(n)

\* A []PatternFilter field: the elements that decoded, an error if one did
\* not. A null element sets nothing and is left out, without an error.
unmarshalFilterSeq(items, i, acc) ==
    IF i > Len(items) THEN acc
    ELSE IF IsNull(items[i]) THEN unmarshalFilterSeq(items, i + 1, acc)
    ELSE LET r == unmarshalNestedFilter(items[i])
         IN  unmarshalFilterSeq(items, i + 1,
                 [err |-> acc.err \/ r.err,
                  val |-> IF r.err THEN acc.val ELSE Append(acc.val, r.val)])

unmarshalFilterSlice(n) ==
    IF IsNull(n) THEN Ok(<<>>)
    ELSE IF n.kind # "sequence" THEN Fail(<<>>)
    ELSE unmarshalFilterSeq(n.content, 1, Ok(<<>>))

\* One key/value pair of the mapping, decoded into the field the key names.
unmarshalFilterField(acc, k, v) ==
    CASE k = "not" ->
            IF IsNull(v) THEN [acc EXCEPT !.val.Not = <<>>]
            ELSE LET r == unmarshalNestedFilter(v)
                 IN  [err |-> acc.err \/ r.err, val |-> [acc.val EXCEPT !.Not = <<r.val>>]]
      [] k = "either" ->
            LET r == unmarshalFilterSlice(v)
            IN  [err |-> acc.err \/ r.err, val |-> [acc.val EXCEPT !.Either = r.val]]
      [] k = "filters" ->
            LET r == unmarshalFilterSlice(v)
            IN  [err |-> acc.err \/ r.err, val |-> [acc.val EXCEPT !.Filters = r.val]]
      [] k = "variable" ->
            LET r == unmarshalString(v)
            IN  [err |-> acc.err \/ r.err,
                 val |-> IF r.err \/ IsNull(v) THEN acc.val
                         ELSE [acc.val EXCEPT !.Variable = r.val]]
      [] k = "detection" ->
            LET r == unmarshalString(v)
            IN  [err |-> acc.err \/ r.err,
                 val |-> IF r.err \/ IsNull(v) THEN acc.val
                         ELSE [acc.val EXCEPT !.Detection = r.val]]
      [] k = "scope" ->
            LET r == unmarshalString(v)
            IN  [err |-> acc.err \/ r.err,
                 val |-> IF r.err \/ IsNull(v) THEN acc.val
                         ELSE [acc.val EXCEPT !.Scope = r.val]]
      [] k = "contains" ->
            LET r == unmarshalBoolPtr(v)
            IN  [err |-> acc.err \/ r.err,
                 val |-> IF r.err THEN acc.val
                         ELSE [acc.val EXCEPT !.Contains = r.val]]
      [] k \in PatternFilterFields
           \ {"not", "either", "filters", "variable", "detection", "scope", "contains"} ->
            acc
      [] OTHER -> [acc EXCEPT !.err = acc.err \/ KnownFields]

unmarshalFilterFields(pairs, i, acc) ==
    IF i > Len(pairs) THEN acc
    ELSE unmarshalFilterFields(pairs, i + 1,
             unmarshalFilterField(acc, pairs[i][1], pairs[i][2]))

\* unmarshal(&wrapped): the plain struct decoding of a PatternFilter.
unmarshalWrapper(n) ==
    IF n.kind = "mapping" THEN unmarshalFilterFields(n.content, 1, Ok(ZeroPatternFilter))
    ELSE IF IsNull(n) THEN Ok(ZeroPatternFilter)
    ELSE Fail(ZeroPatternFilter)

\* PatternFilter.UnmarshalYAML going on after unmarshal(&wrapped) failed.
PatternFilterUnmarshalYAML_ErrorDropped(n) ==
    Ok(ApplyContains(unmarshalWrapper(n).val))

PatternFilterUnmarshalYAML(n) ==
    LET wrapped == unmarshalWrapper(n)
    IN  IF wrapped.err THEN Fail(ZeroPatternFilter)
        ELSE Ok(ApplyContains(wrapped.val))

(***************************************************************************)
(* RulePattern.UnmarshalYAML.                                              *)
(***************************************************************************)
unmarshalRulePatternField(acc, k, v) ==
    CASE k = "pattern" ->
            LET r == unmarshalString(v)
            IN  [err |-> acc.err \/ r.err,
                 val |-> IF r.err \/ IsNull(v) THEN acc.val
                         ELSE [acc.val EXCEPT !.Pattern = r.val]]
      [] k = "focus" ->
            LET r == unmarshalString(v)
            IN  [err |-> acc.err \/ r.err,
                 val |-> IF r.err \/ IsNull(v) THEN acc.val
                         ELSE [acc.val EXCEPT !.Focus = r.val]]
      [] k = "filters" ->
            LET r == unmarshalFilterSlice(v)
            IN  [err |-> acc.err \/ r.err, val |-> [acc.val EXCEPT !.Filters = r.val]]
      [] OTHER -> [acc EXCEPT !.err = acc.err \/ KnownFields]

RECURSIVE unmarshalRulePatternFields(_, _, _)
unmarshalRulePatternFields(pairs, i, acc) ==
    IF i > Len(pairs) THEN acc
    ELSE unmarshalRulePatternFields(pairs, i + 1,
             unmarshalRulePatternField(acc, pairs[i][1], pairs[i][2]))

\* unmarshal of the receiver as a rawRulePattern: decodes into the receiver.
unmarshalRawRulePattern(n, rulePattern) ==
    IF n.kind = "mapping" THEN unmarshalRulePatternFields(n.content, 1, Ok(rulePattern))
    ELSE IF IsNull(n) THEN Ok(rulePattern)
    ELSE Fail(rulePattern)

\* RulePattern.UnmarshalYAML returning from the string form without storing
\* the pattern.
RulePatternUnmarshalYAML_PatternNotStored(n, rulePattern) ==
    LET pattern == unmarshalString(n)
    IN  IF ~pattern.err THEN Ok(rulePattern)
        ELSE unmarshalRawRulePattern(n, rulePattern)

\* RulePattern.UnmarshalYAML returning nil whatever the structured form gave.
RulePatternUnmarshalYAML_ErrorDropped(n, rulePattern) ==
    LET pattern == unmarshalString(n)
    IN  IF ~pattern.err THEN Ok([rulePattern EXCEPT !.Pattern = pattern.val])
        ELSE Ok(unmarshalRawRulePattern(n, rulePattern).val)

RulePatternUnmarshalYAML(n, rulePattern) ==
    LET pattern == unmarshalString(n)
    IN  IF ~pattern.err THEN Ok([rulePattern EXCEPT !.Pattern = pattern.val])
        ELSE unmarshalRawRulePattern(n, rulePattern)

\* The `patterns` field ([]RulePattern) of a rule definition: every entry is
\* decoded into a fresh RulePattern; a null entry sets nothing and is left
\* out, without an error.
RECURSIVE unmarshalPatternSeq(_, _, _)
unmarshalPatternSeq(items, i, acc) ==
    IF i > Len(items) THEN acc
    ELSE IF IsNull(items[i]) THEN unmarshalPatternSeq(items, i + 1, acc)
    ELSE LET r == RulePatternUnmarshalYAML(items[i], ZeroRulePattern)
         IN  unmarshalPatternSeq(items, i + 1,
                 [err |-> acc.err \/ r.err,
                  val |-> IF r.err THEN acc.val ELSE Append(acc.val, r.val)])

unmarshalPatterns(n) ==
    IF IsNull(n) THEN Ok(<<>>)
    ELSE IF n.kind # "sequence" THEN Fail(<<>>)
    ELSE unmarshalPatternSeq(n.content, 1, Ok(<<>>))

(***************************************************************************)
(* The documents the decoder is run on.                                    *)
(***************************************************************************)
\* The most filter mappings in one filter document, and the most entries in
\* one `patterns` list.
MaxFilterNodes == 3

MaxPatterns == 2

Pair(k, v) == <<<<k, v>>>>

\* A filter mapping that holds no other filter.
LeafFilters ==
    { Mapping(Pair("detection", Str("rule_a")) \o s \o c) :
        s \in {<<>>, Pair("scope", Str(RESULT_SCOPE))},
        c \in {<<>>, Pair("contains", Bool("true")), Pair("contains", Bool("false"))} }
    \cup
    { Mapping(Pair("variable", Str("X")) \o Pair("contains", Bool("false"))),
      Mapping(Pair("detection", Str("rule_a")) \o Pair("bogus", Str("x"))),
      Mapping(Pair("contains", Str("maybe")) \o Pair("detection", Str("rule_a"))),
      Mapping(Pair("detection", Str("rule_a")) \o Pair("contains", Str("no"))),
      Mapping(Pair("detection", Str("rule_a")) \o Pair("scope", Str(""))),
      Mapping(Pair("either", Sequence(<<>>))) }

\* What a reference filter that holds nested filters is written with.
OuterReference ==
    { Pair("detection", Str("rule_b")) \o c :
        c \in {<<>>, Pair("contains", Bool("false"))} }

RECURSIVE FilterDocsOfSize(_)
RECURSIVE FilterSeqsOfSize(_)

\* The sequences of filter documents that hold m filter mappings in all.
FilterSeqsOfSize(m) ==
    IF m = 0 THEN {<<>>}
    ELSE UNION { { <<x>> \o rest : x \in FilterDocsOfSize(k),
                                   rest \in FilterSeqsOfSize(m - k) } : k \in 1..m }

\* The filter documents made of exactly n filter mappings.
FilterDocsOfSize(n) ==
    IF n = 1 THEN LeafFilters
    ELSE { Mapping(Pair("not", x)) : x \in FilterDocsOfSize(n - 1) }
         \cup { Mapping(Pair("either", Sequence(xs))) : xs \in FilterSeqsOfSize(n - 1) }
         \cup { Mapping(o \o Pair("filters", Sequence(xs))) :
                    o \in OuterReference, xs \in FilterSeqsOfSize(n - 1) }

FilterDocs == UNION { FilterDocsOfSize(n) : n \in 1..MaxFilterNodes }

PatternScalars ==
    { Str("logger.info($X)"), Str(""), Scalar("!!int", "123"), Bool("true") }

\* The entries of a `patterns` list: bare scalars, structured objects, and
\* entries that are neither.
PatternEntries ==
    PatternScalars
    \cup { Null }
    \cup { Mapping(Pair("pattern", v)) : v \in PatternScalars }
    \cup { Mapping(Pair("pattern", Str("logger.info($X)")) \o Pair("focus", Str("X"))),
           Mapping(Pair("focus", Str("X"))),
           Mapping(Pair("pattern", Str("logger.info($X)")) \o Pair("bogus", Str("x"))),
           Mapping(Pair("pattern", Sequence(<<Str("a")>>))),
           Mapping(Pair("pattern", Str("a")) \o Pair("filters", Str("x"))),
           Sequence(<<Str("logger.info($X)")>>),
           Sequence(<<>>) }
    \cup { Mapping(Pair("pattern", Str("sleep($N)")) \o Pair("filters", Sequence(<<f>>))) :
               f \in { Mapping(Pair("detection", Str("rule_a"))),
                       Mapping(Pair("detection", Str("rule_a")) \o Pair("bogus", Str("x"))),
                       Mapping(Pair("variable", Str("N")) \o Pair("less_than", Scalar("!!int", "10"))) } }

RECURSIVE PatternSeqsOfLen(_)
PatternSeqsOfLen(n) ==
    IF n = 0 THEN {<<>>}
    ELSE { <<e>> \o rest : e \in PatternEntries, rest \in PatternSeqsOfLen(n - 1) }

PatternsDocs ==
    { Sequence(es) : es \in UNION { PatternSeqsOfLen(n) : n \in 0..MaxPatterns } }

(***************************************************************************)
(* SpecYaml: one document, decoded once.                                   *)
(***************************************************************************)
InitYaml ==
    /\ \/ target = "filter" /\ input \in FilterDocs
       \/ target = "patterns" /\ input \in PatternsDocs
    /\ decoded = Idle
    /\ yamlPc = "start"
    /\ rule = Idle /\ ret = Idle /\ rulePc = Idle
    /\ opts = Idle /\ env = Idle /\ policies = Idle
    /\ config = Idle /\ err = Idle /\ configPc = Idle
    /\ nodeLine = Idle /\ store = Idle /\ report = Idle /\ reportPc = Idle
    /\ outConfig = Idle /\ outEnv = Idle /\ calls = Idle /\ data = Idle
    /\ dataErr = Idle /\ client = Idle /\ formatted = Idle /\ outPc = Idle

\* yaml.Unmarshal of a filter document into a PatternFilter.
UnmarshalFilter ==
    /\ yamlPc = "start"
    /\ target = "filter"
    /\ decoded' = PatternFilterUnmarshalYAML(input)
    /\ yamlPc' = "done"
    /\ UNCHANGED <<target, input, ruleVars, configVars, reportVars, outputVars>>

\* yaml.Unmarshal of a `patterns` list into a []RulePattern.
UnmarshalPatterns ==
    /\ yamlPc = "start"
    /\ target = "patterns"
    /\ decoded' = unmarshalPatterns(input)
    /\ yamlPc' = "done"
    /\ UNCHANGED <<target, input, ruleVars, configVars, reportVars, outputVars>>

NextYaml == UnmarshalFilter \/ UnmarshalPatterns

SpecYaml == InitYaml /\ [][NextYaml]_vars

(***************************************************************************)
(* Properties of the decoding.                                             *)
(***************************************************************************)
FilterDecoded == target = "filter" /\ yamlPc = "done" /\ ~decoded.err

PatternsDecoded == target = "patterns" /\ yamlPc = "done" /\ ~decoded.err

\* The filter mappings of a document paired with the PatternFilter each was
\* decoded into, at every depth, each with its depth (0 for the outermost).
RECURSIVE DecodedFilters(_, _, _)
DecodedFilters(n, f, depth) ==
    {<<n, f, depth>>}
    \cup (IF HasKey(n, "not")
          THEN DecodedFilters(ValueOf(n, "not"), f.Not[1], depth + 1) ELSE {})
    \cup (IF HasKey(n, "either")
          THEN UNION { DecodedFilters(ValueOf(n, "either").content[i], f.Either[i], depth + 1) :
                         i \in 1..Len(f.Either) }
          ELSE {})
    \cup (IF HasKey(n, "filters")
          THEN UNION { DecodedFilters(ValueOf(n, "filters").content[i], f.Filters[i], depth + 1) :
                         i \in 1..Len(f.Filters) }
          ELSE {})

\* The scope a filter mapping writes: "" when it writes none.
WrittenScope(n) == IF HasKey(n, "scope") THEN ValueOf(n, "scope").value ELSE ""

\* C1 (as stated): for every Reference filter decoded by
\* PatternFilter.UnmarshalYAML, `contains: false` yields scope cursor, and
\* `contains: true` or an absent `contains` yields scope nested.
C1_ContainsDecidesScope ==
    FilterDecoded =>
        \A p \in DecodedFilters(input, decoded.val, 0) :
            p[2].Detection # "" =>
                /\ p[2].Contains = "false" => p[2].Scope = CURSOR_SCOPE
                /\ p[2].Contains \in {"true", "nil"} => p[2].Scope = NESTED_SCOPE

\* C1 (amended): for every Reference filter decoded by
\* PatternFilter.UnmarshalYAML, `contains: false` yields scope cursor whatever
\* scope is written; `contains: true` or an absent `contains` yields scope
\* nested when the filter writes no scope or an empty one, and keeps the
\* written scope otherwise.
C1_ContainsDecidesScopeUnlessWritten ==
    FilterDecoded =>
        \A p \in DecodedFilters(input, decoded.val, 0) :
            p[2].Detection # "" =>
                /\ p[2].Contains = "false" => p[2].Scope = CURSOR_SCOPE
                /\ p[2].Contains \in {"true", "nil"} =>
                       p[2].Scope = IF WrittenScope(p[1]) = "" THEN NESTED_SCOPE
                                    ELSE WrittenScope(p[1])

\* C1 witness: a decoded document holding a Reference filter written with
\* `contains: false` and a scope, decoded to cursor, and one written with
\* `contains: true` and no scope, decoded to nested.
C1_Witness ==
    /\ FilterDecoded
    /\ \E p \in DecodedFilters(input, decoded.val, 0) :
          /\ p[2].Detection # "" /\ p[2].Contains = "false"
          /\ WrittenScope(p[1]) = RESULT_SCOPE /\ p[2].Scope = CURSOR_SCOPE
    /\ \E p \in DecodedFilters(input, decoded.val, 0) :
          /\ p[2].Detection # "" /\ p[2].Contains = "true"
          /\ ~HasKey(p[1], "scope") /\ p[2].Scope = NESTED_SCOPE

\* C2: after PatternFilter.UnmarshalYAML succeeds, every Reference filter, at
\* every nesting depth, has a non-empty scope, and one written with neither
\* `scope` nor `contains` has the default scope nested.
C2_ReferenceScopeNeverEmpty ==
    FilterDecoded =>
        \A p \in DecodedFilters(input, decoded.val, 0) :
            p[2].Detection # "" =>
                /\ p[2].Scope # ""
                /\ (~HasKey(p[1], "scope") /\ ~HasKey(p[1], "contains"))
                       => p[2].Scope = DefaultScope

\* C2 witness: a Reference filter written with neither `scope` nor `contains`,
\* two levels down (in the `filters` of a reference that is under a `not`),
\* decoded with scope nested.
C2_Witness ==
    /\ FilterDecoded
    /\ HasKey(input, "not")
    /\ HasKey(ValueOf(input, "not"), "filters")
    /\ \E p \in DecodedFilters(input, decoded.val, 0) :
          /\ p[3] = 2
          /\ p[2].Detection # ""
          /\ ~HasKey(p[1], "scope") /\ ~HasKey(p[1], "contains")
          /\ p[2].Scope = NESTED_SCOPE

\* A scalar entry that is not a null: the bare-string form of a pattern.
BareString(n) == n.kind = "scalar" /\ ~IsNull(n)

\* The structured entry {pattern: s} with no focus and no filters.
PatternOnly(n) ==
    /\ n.kind = "mapping"
    /\ Len(n.content) = 1
    /\ n.content[1][1] = "pattern"
    /\ BareString(n.content[1][2])

\* Where entry i of the list is in the decoded slice: null entries are left out.
DecodedAt(i) == decoded.val[Cardinality({j \in 1..i : ~IsNull(input.content[j])})]

\* C3: a `patterns` entry written as the bare string s and one written as the
\* structured object {pattern: s} decode to the same RulePattern:
\* Pattern = s, Focus empty, Filters empty.
C3_BareStringIsPatternOnly ==
    PatternsDecoded =>
        \A i \in 1..Len(input.content) :
            /\ BareString(input.content[i]) =>
                   DecodedAt(i) = [Pattern |-> input.content[i].value,
                                     Focus |-> "", Filters |-> <<>>]
            /\ PatternOnly(input.content[i]) =>
                   DecodedAt(i) = [Pattern |-> input.content[i].content[1][2].value,
                                     Focus |-> "", Filters |-> <<>>]

\* C3 witness: a decoded list that holds the bare string s and {pattern: s}
\* for one non-empty s, decoded alike.
C3_Witness ==
    /\ PatternsDecoded
    /\ Len(input.content) = 2
    /\ BareString(input.content[1])
    /\ input.content[1].value # ""
    /\ input.content[2] = Mapping(Pair("pattern", input.content[1]))
    /\ decoded.val[1] = decoded.val[2]
    /\ decoded.val[1].Pattern = input.content[1].value

\* An entry that is neither a string nor the structured object: a sequence,
\* or a mapping that gives `pattern` or `focus` something that is no scalar,
\* or `filters` something that is no list.
NeitherForm(n) ==
    \/ n.kind = "sequence"
    \/ /\ n.kind = "mapping"
       /\ \E i \in 1..Len(n.content) :
             \/ n.content[i][1] \in {"pattern", "focus"} /\ n.content[i][2].kind # "scalar"
             \/ n.content[i][1] = "filters" /\ n.content[i][2].kind = "scalar"
                    /\ ~IsNull(n.content[i][2])

\* C4: a `patterns` entry that decodes neither as a string nor as the
\* structured object is rejected with an error, and decoding returns no
\* error only when every entry is a scalar or a mapping.
C4_NeitherFormRejected ==
    (target = "patterns" /\ yamlPc = "done") =>
        /\ (\E i \in 1..Len(input.content) : NeitherForm(input.content[i])) => decoded.err
        /\ ~decoded.err =>
               \A i \in 1..Len(input.content) :
                   input.content[i].kind \in {"scalar", "mapping"}

\* C4 witness: a decoded list whose only entry is a sequence, rejected.
C4_Witness ==
    /\ target = "patterns" /\ yamlPc = "done"
    /\ Len(input.content) = 1
    /\ input.content[1].kind = "sequence"
    /\ decoded.err

\* Whether a filter document holds, at any depth, a mapping with a key that
\* is no field of PatternFilter.
RECURSIVE UndeclaredFilterKey(_)
UndeclaredFilterKey(n) ==
    /\ n.kind = "mapping"
    /\ \E i \in 1..Len(n.content) :
          \/ n.content[i][1] \notin PatternFilterFields
          \/ n.content[i][1] = "not" /\ UndeclaredFilterKey(n.content[i][2])
          \/ /\ n.content[i][1] \in {"either", "filters"}
             /\ n.content[i][2].kind = "sequence"
             /\ \E j \in 1..Len(n.content[i][2].content) :
                   UndeclaredFilterKey(n.content[i][2].content[j])

\* Whether a `patterns` entry is a mapping with a key that is no field of
\* RulePattern, or holds a filter with an undeclared key.
UndeclaredPatternKey(n) ==
    /\ n.kind = "mapping"
    /\ \E i \in 1..Len(n.content) :
          \/ n.content[i][1] \notin RulePatternFields
          \/ /\ n.content[i][1] = "filters"
             /\ n.content[i][2].kind = "sequence"
             /\ \E j \in 1..Len(n.content[i][2].content) :
                   UndeclaredFilterKey(n.content[i][2].content[j])

LevelLow == "low"

Return(v) == [panic |-> FALSE, value |-> v]

\* A runtime panic (index out of range): the call does not return.
Panic == [panic |-> TRUE, value |-> ""]

\* GetSeverity with the test inverted.
GetSeverity_Inverted(r) ==
    IF r.Severity # "" THEN Return(LevelLow) ELSE Return(r.Severity)

GetSeverity(r) ==
    IF r.Severity = "" THEN Return(LevelLow) ELSE Return(r.Severity)

\* Languages[0]
FirstLanguage(r) ==
    IF Len(r.Languages.items) = 0 THEN Panic ELSE Return(r.Languages.items[1])

Language(r) ==
    IF r.Languages.isNil THEN Return("secret")
    ELSE LET first == FirstLanguage(r)
         IN  IF first.panic THEN Panic
             ELSE CASE first.value = "java" -> Return("Java")
                    [] first.value = "javascript" -> Return("JavaScript")
                    [] first.value = "ruby" -> Return("Ruby")
                    [] first.value = "sql" -> Return("SQL")
                    [] OTHER -> Return(first.value)

\* The most entries in a rule's `languages`.
MaxLanguages == 2

Severities == {"", "critical", "high", "medium", "low", "warning"}

LanguageTags == {"java", "javascript", "ruby", "sql", "php"}

RECURSIVE TagSeqsOfLen(_)
TagSeqsOfLen(n) ==
    IF n = 0 THEN {<<>>}
    ELSE { <<t>> \o rest : t \in LanguageTags, rest \in TagSeqsOfLen(n - 1) }

\* `languages` absent (the nil slice), or present with 0..MaxLanguages entries.
LanguageSlices ==
    { [isNil |-> TRUE, items |-> <<>>] }
    \cup { [isNil |-> FALSE, items |-> ts] :
             ts \in UNION { TagSeqsOfLen(n) : n \in 0..MaxLanguages } }

InitRule ==
    /\ rule \in [Severity : Severities, Languages : LanguageSlices]
    /\ ret = Idle
    /\ rulePc = "start"
    /\ target = Idle /\ input = Idle /\ decoded = Idle /\ yamlPc = Idle
    /\ opts = Idle /\ env = Idle /\ policies = Idle
    /\ config = Idle /\ err = Idle /\ configPc = Idle
    /\ nodeLine = Idle /\ store = Idle /\ report = Idle /\ reportPc = Idle
    /\ outConfig = Idle /\ outEnv = Idle /\ calls = Idle /\ data = Idle
    /\ dataErr = Idle /\ client = Idle /\ formatted = Idle /\ outPc = Idle

CallGetSeverity ==
    /\ rulePc = "start"
    /\ ret' = GetSeverity(rule)
    /\ rulePc' = "GetSeverity"
    /\ UNCHANGED <<rule, yamlVars, configVars, reportVars, outputVars>>

CallLanguage ==
    /\ rulePc = "start"
    /\ ret' = Language(rule)
    /\ rulePc' = "Language"
    /\ UNCHANGED <<rule, yamlVars, configVars, reportVars, outputVars>>

NextRule == CallGetSeverity \/ CallLanguage

SpecRule == InitRule /\ [][NextRule]_vars

\* C6: Rule.GetSeverity returns low when the rule declares no severity and
\* the declared severity unchanged otherwise; it never returns the empty
\* string.
C6_SeverityDefaultsToLow ==
    rulePc = "GetSeverity" =>
        /\ ~ret.panic
        /\ rule.Severity = "" => ret.value = "low"
        /\ rule.Severity # "" => ret.value = rule.Severity
        /\ ret.value # ""

\* C6 witness: GetSeverity returned low for a rule that declares no severity.
C6_Witness ==
    rulePc = "GetSeverity" /\ rule.Severity = "" /\ ret.value = "low"

\* The display name of a language tag.
DisplayName(t) ==
    CASE t = "java" -> "Java"
      [] t = "javascript" -> "JavaScript"
      [] t = "ruby" -> "Ruby"
      [] t = "sql" -> "SQL"
      [] OTHER -> t

\* C7: for every rule whose `languages` is empty (absent, or present with zero
\* entries) Rule.Language completes and returns secret; for a rule with at
\* least one language it returns the display name of the first language.
C7_LanguageOfRule ==
    rulePc = "Language" =>
        /\ Len(rule.Languages.items) = 0 => (~ret.panic /\ ret.value = "secret")
        /\ Len(rule.Languages.items) > 0 =>
               (~ret.panic /\ ret.value = DisplayName(rule.Languages.items[1]))

(***************************************************************************)
(* FromOptions.                                                            *)
(*                                                                         *)
(* A policy is its list of modules; the policies map is a function from    *)
(* policy type to policy. Modules holds pointers, so what the loop stores  *)
(* in a module is stored in the policy of the map.                         *)
(***************************************************************************)
ReportSecurity == "security"

ReportPrivacy == "privacy"

NoPolicies == [t \in {} |-> <<>>]

NoRules == {}

\* Config{}, as far as the model holds a Config.
ZeroConfig ==
    [Client |-> "nil", Report |-> "", DiffBaseBranch |-> "",
     Policies |-> NoPolicies, Rules |-> NoRules, IgnoreFile |-> ""]

\* policiesFs.ReadFile(path)
ReadFile(fs, path) ==
    IF path \in DOMAIN fs THEN [err |-> "nil", content |-> fs[path]]
    ELSE [err |-> "file does not exist", content |-> ""]

\* The loop over a policy's modules with the module copied out of the list:
\* the content is stored in the copy.
RECURSIVE expandModules_Copy(_, _, _)
expandModules_Copy(fs, modules, i) ==
    IF i > Len(modules) THEN [err |-> "nil", modules |-> modules]
    ELSE IF modules[i].Path # ""
         THEN LET read == ReadFile(fs, modules[i].Path)
              IN  IF read.err # "nil" THEN [err |-> read.err, modules |-> modules]
                  ELSE expandModules_Copy(fs, modules, i + 1)
         ELSE expandModules_Copy(fs, modules, i + 1)

\* The loop over a policy's modules with the error of ReadFile not looked at.
RECURSIVE expandModules_ErrorDropped(_, _, _)
expandModules_ErrorDropped(fs, modules, i) ==
    IF i > Len(modules) THEN [err |-> "nil", modules |-> modules]
    ELSE IF modules[i].Path # ""
         THEN expandModules_ErrorDropped(fs,
                  [modules EXCEPT ![i].Content = ReadFile(fs, modules[i].Path).content],
                  i + 1)
         ELSE expandModules_ErrorDropped(fs, modules, i + 1)

\* The loop over policy.Modules, from module i on: the first file that cannot
\* be read ends it with the error.
RECURSIVE expandModules(_, _, _)
expandModules(fs, modules, i) ==
    IF i > Len(modules) THEN [err |-> "nil", modules |-> modules]
    ELSE IF modules[i].Path # ""
         THEN LET read == ReadFile(fs, modules[i].Path)
              IN  IF read.err # "nil" THEN [err |-> read.err, modules |-> modules]
                  ELSE expandModules(fs, [modules EXCEPT ![i].Content = read.content], i + 1)
         ELSE expandModules(fs, modules, i + 1)

\* The loop over the keys of the policies map, in the order the map gives them.
RECURSIVE expandPolicies(_, _, _, _)
expandPolicies(fs, pols, order, k) ==
    IF k > Len(order) THEN [err |-> "nil", policies |-> pols]
    ELSE LET r == expandModules(fs, pols[order[k]], 1)
             next == [pols EXCEPT ![order[k]] = r.modules]
         IN  IF r.err # "nil" THEN [err |-> r.err, policies |-> next]
             ELSE expandPolicies(fs, next, order, k + 1)

\* The checks of the diff base branch without the check of the API client.
checkDiffBaseBranch_ClientNotChecked(c) ==
    IF c.DiffBaseBranch # "" /\ c.Report # ReportSecurity
    THEN "diff base branch is only supported for the security report"
    ELSE "nil"

\* The checks of the diff base branch on the Config built.
checkDiffBaseBranch(c) ==
    IF c.DiffBaseBranch # ""
    THEN IF c.Report # ReportSecurity
         THEN "diff base branch is only supported for the security report"
         ELSE IF c.Client # "nil"
              THEN "diff base branch is not supported when using an api key"
              ELSE "nil"
    ELSE "nil"

Returned(c, e, pols) == [config |-> c, err |-> e, policies |-> pols]

\* FromOptions with the error of ignore.GetIgnoredFingerprints not looked at.
fromOptions_IgnoreErrorDropped(o, e, order) ==
    IF e.loadRules.err # "nil" THEN Returned(ZeroConfig, e.loadRules.err, e.defaultPolicies)
    ELSE LET expanded == expandPolicies(e.policiesFs, e.defaultPolicies, order, 1)
         IN  IF expanded.err # "nil"
             THEN Returned(ZeroConfig, expanded.err, expanded.policies)
             ELSE LET c == [Client |-> o.Client, Report |-> o.Report,
                            DiffBaseBranch |-> o.DiffBaseBranch,
                            Policies |-> expanded.policies,
                            Rules |-> e.loadRules.Rules,
                            IgnoreFile |-> o.IgnoreFile]
                      diff == checkDiffBaseBranch(c)
                  IN  IF diff # "nil" THEN Returned(ZeroConfig, diff, expanded.policies)
                      ELSE Returned(c, "nil", expanded.policies)

\* FromOptions(opts, versionMeta): the Config and the error it returns, and
\* its local policies map as it returns.
fromOptions(o, e, order) ==
    IF e.loadRules.err # "nil" THEN Returned(ZeroConfig, e.loadRules.err, e.defaultPolicies)
    ELSE LET expanded == expandPolicies(e.policiesFs, e.defaultPolicies, order, 1)
         IN  IF expanded.err # "nil"
             THEN Returned(ZeroConfig, expanded.err, expanded.policies)
             ELSE IF e.ignoredFingerprintsErr # "nil"
             THEN Returned(ZeroConfig, e.ignoredFingerprintsErr, expanded.policies)
             ELSE LET c == [Client |-> o.Client, Report |-> o.Report,
                            DiffBaseBranch |-> o.DiffBaseBranch,
                            Policies |-> expanded.policies,
                            Rules |-> e.loadRules.Rules,
                            IgnoreFile |-> o.IgnoreFile]
                      diff == checkDiffBaseBranch(c)
                  IN  IF diff # "nil" THEN Returned(ZeroConfig, diff, expanded.policies)
                      ELSE Returned(c, "nil", expanded.policies)

\* The most modules in the policies of policies.yml, all policies together.
MaxModules == 2

PolicyTypes == {"privacy_report", "verifier"}

\* The embedded file that is always there, and the one that may be missing.
EmbeddedFile == "policies/common.rego"

OtherFile == "policies/privacy_report.rego"

DeclaredModules ==
    { [Path |-> "", Name |-> "inline", Content |-> "package inline"],
      [Path |-> EmbeddedFile, Name |-> "bearer.common", Content |-> ""],
      [Path |-> OtherFile, Name |-> "bearer.privacy_report", Content |-> "stale"] }

RECURSIVE ModuleSeqsOfLen(_)
ModuleSeqsOfLen(n) ==
    IF n = 0 THEN {<<>>}
    ELSE { <<m>> \o rest : m \in DeclaredModules, rest \in ModuleSeqsOfLen(n - 1) }

RECURSIVE TotalModules(_, _)
TotalModules(pols, types) ==
    IF types = {} THEN 0
    ELSE LET t == CHOOSE x \in types : TRUE
         IN  Len(pols[t]) + TotalModules(pols, types \ {t})

\* What DefaultPolicies() may return.
DefaultPoliciesSets ==
    { pols \in [PolicyTypes -> UNION { ModuleSeqsOfLen(n) : n \in 0..MaxModules }] :
        TotalModules(pols, PolicyTypes) <= MaxModules }

EmbeddedFs ==
    { [f \in {EmbeddedFile} |-> "package bearer.common"],
      [f \in {EmbeddedFile, OtherFile} |->
          IF f = EmbeddedFile THEN "package bearer.common"
          ELSE "package bearer.privacy_report"] }

LoadRulesResults ==
    { [err |-> "failed to load rules", Rules |-> NoRules],
      [err |-> "nil", Rules |-> {"ruby_lang_logger", "ruby_third_parties_open_telemetry"}] }

Environments ==
    [loadRules : LoadRulesResults,
     defaultPolicies : DefaultPoliciesSets,
     policiesFs : EmbeddedFs,
     ignoredFingerprintsErr : {"nil", "failed to read ignore file"}]

Options ==
    [Client : {"nil", "api"},
     Report : {ReportSecurity, ReportPrivacy},
     DiffBaseBranch : {"", "main"},
     IgnoreFile : {"bearer.ignore"}]

\* The orders in which a map with these keys may be ranged over.
Orders(keys) ==
    { o \in [1..Cardinality(keys) -> keys] : \A i, j \in DOMAIN o : i # j => o[i] # o[j] }

InitConfig ==
    /\ opts \in Options
    /\ env \in Environments
    /\ policies = Idle /\ config = Idle /\ err = Idle
    /\ configPc = "start"
    /\ target = Idle /\ input = Idle /\ decoded = Idle /\ yamlPc = Idle
    /\ rule = Idle /\ ret = Idle /\ rulePc = Idle
    /\ nodeLine = Idle /\ store = Idle /\ report = Idle /\ reportPc = Idle
    /\ outConfig = Idle /\ outEnv = Idle /\ calls = Idle /\ data = Idle
    /\ dataErr = Idle /\ client = Idle /\ formatted = Idle /\ outPc = Idle

FromOptions ==
    /\ configPc = "start"
    /\ \E order \in Orders(DOMAIN env.defaultPolicies) :
          LET r == fromOptions(opts, env, order)
          IN  /\ config' = r.config
              /\ err' = r.err
              /\ policies' = r.policies
    /\ configPc' = "done"
    /\ UNCHANGED <<opts, env, yamlVars, ruleVars, reportVars, outputVars>>

NextConfig == FromOptions

SpecConfig == InitConfig /\ [][NextConfig]_vars

\* The modules declared with a path whose embedded file is missing.
MissingModule ==
    \E t \in DOMAIN env.defaultPolicies :
        \E i \in 1..Len(env.defaultPolicies[t]) :
            /\ env.defaultPolicies[t][i].Path # ""
            /\ env.defaultPolicies[t][i].Path \notin DOMAIN env.policiesFs

\* C8: after FromOptions succeeds, every policy module that carries a
\* non-empty path has content equal to the text of the embedded file at that
\* path, and every module with an empty path keeps the content it was
\* declared with.
C8_ModulesExpanded ==
    (configPc = "done" /\ err = "nil") =>
        /\ DOMAIN config.Policies = DOMAIN env.defaultPolicies
        /\ \A t \in DOMAIN config.Policies :
              /\ Len(config.Policies[t]) = Len(env.defaultPolicies[t])
              /\ \A i \in 1..Len(config.Policies[t]) :
                    LET declared == env.defaultPolicies[t][i]
                        module == config.Policies[t][i]
                    IN  /\ module.Path = declared.Path
                        /\ declared.Path # "" =>
                               /\ declared.Path \in DOMAIN env.policiesFs
                               /\ module.Content = env.policiesFs[declared.Path]
                        /\ declared.Path = "" => module.Content = declared.Content

\* C8 witness: FromOptions succeeded on a policy with a module whose declared
\* content differs from its embedded file, and on a module without a path.
C8_Witness ==
    /\ configPc = "done" /\ err = "nil"
    /\ \E t \in DOMAIN config.Policies : \E i \in 1..Len(config.Policies[t]) :
          /\ env.defaultPolicies[t][i].Path = OtherFile
          /\ env.defaultPolicies[t][i].Content = "stale"
          /\ config.Policies[t][i].Content = "package bearer.privacy_report"
    /\ \E t \in DOMAIN config.Policies : \E i \in 1..Len(config.Policies[t]) :
          /\ env.defaultPolicies[t][i].Path = ""
          /\ config.Policies[t][i].Content = "package inline"

\* C9: if rule loading fails, if the embedded file of a policy module with a
\* path is missing, or if reading the ignored fingerprints fails, FromOptions
\* returns a non-nil error together with the zero Config (no rules, no
\* policies).
C9_LoadFailureReturnsZeroConfig ==
    configPc = "done" =>
        ((env.loadRules.err # "nil" \/ MissingModule \/ env.ignoredFingerprintsErr # "nil")
            => (/\ err # "nil"
                /\ config = ZeroConfig
                /\ config.Rules = {} /\ DOMAIN config.Policies = {}))

\* C9 witness: the file of the second module is missing after the first
\* module was expanded in the local map; the Config returned is zero.
C9_Witness ==
    /\ configPc = "done"
    /\ env.loadRules.err = "nil" /\ env.ignoredFingerprintsErr = "nil"
    /\ MissingModule
    /\ \E t \in DOMAIN policies :
          /\ Len(policies[t]) = 2
          /\ policies[t][1].Path = EmbeddedFile
          /\ policies[t][1].Content = "package bearer.common"
          /\ policies[t][2].Path = OtherFile
    /\ err = "file does not exist"
    /\ config = ZeroConfig

\* C11: every Config that FromOptions returns without error and that has a
\* non-empty diff base branch has report kind security and a nil API client;
\* with a diff base branch and any other report kind, or with a diff base
\* branch and an API client, FromOptions returns an error and the zero Config.
C11_DiffBaseBranchChecked ==
    configPc = "done" =>
        /\ (err = "nil" /\ config.DiffBaseBranch # "") =>
               (config.Report = ReportSecurity /\ config.Client = "nil")
        /\ (opts.DiffBaseBranch # "" /\ (opts.Report # ReportSecurity \/ opts.Client # "nil")) =>
               (err # "nil" /\ config = ZeroConfig)

\* C11 witness: with everything loaded, FromOptions refused a diff base branch
\* for the security report because an API client is configured.
C11_Witness ==
    /\ configPc = "done"
    /\ opts.DiffBaseBranch = "main" /\ opts.Report = ReportSecurity /\ opts.Client = "api"
    /\ err = "diff base branch is not supported when using an api key"
    /\ config = ZeroConfig

(***************************************************************************)
(* The order of the findings of one file in the report.                    *)
(*                                                                         *)
(* The engine that emits the detections is described by the design of the  *)
(* rule engine (Detection Store, Ordering guarantees); the snapshot of     *)
(* TestRubyThirdPartiesOpenTelemetrySummary holds what it has to emit.     *)
(***************************************************************************)
\* The line_number of the findings of the snapshot, in the snapshot's order.
SnapshotLines == <<2, 6, 7, 11>>

\* The rule of the snapshot's findings, and a second rule.
SnapshotRule == "ruby_third_parties_open_telemetry"

OtherRule == "ruby_lang_logger"

\* The rule ids in ascending order.
RuleIdsAscending == <<OtherRule, SnapshotRule>>

RuleIds == {RuleIdsAscending[i] : i \in DOMAIN RuleIdsAscending}

RuleIdRank(id) == CHOOSE i \in DOMAIN RuleIdsAscending : RuleIdsAscending[i] = id

\* The topological layer of a rule in the reference graph.
RuleLayer(id) == IF id = OtherRule THEN 1 ELSE 0

\* The order key with the pattern index ahead of the node.
OrderKey_PatternFirst(d) == <<RuleLayer(d.rule_id), RuleIdRank(d.rule_id), d.pattern, d.node>>

\* The order key of a detection: (rule topological layer, rule id, node
\* pre-order index, pattern index).
OrderKey(d) == <<RuleLayer(d.rule_id), RuleIdRank(d.rule_id), d.node, d.pattern>>

RECURSIVE LexLess(_, _, _)
LexLess(a, b, i) ==
    IF i > Len(a) THEN FALSE
    ELSE IF a[i] # b[i] THEN a[i] < b[i]
    ELSE LexLess(a, b, i + 1)

KeyBefore(d, e) == LexLess(OrderKey(d), OrderKey(e), 1)

\* ds, sorted, with d put at its place.
RECURSIVE InsertSorted(_, _)
InsertSorted(ds, d) ==
    IF ds = <<>> THEN <<d>>
    ELSE IF KeyBefore(d, Head(ds)) THEN <<d>> \o ds
    ELSE <<Head(ds)>> \o InsertSorted(Tail(ds), d)

\* The detections of the store in the stable order.
RECURSIVE StableOrder(_)
StableOrder(ds) ==
    IF ds = <<>> THEN <<>> ELSE InsertSorted(StableOrder(Tail(ds)), Head(ds))

\* The finding reported for a detection.
Finding(d, lines) ==
    [rule_id |-> d.rule_id, line_number |-> lines[d.node],
     node |-> d.node, pattern |-> d.pattern]

\* The most detections in the store of one file.
MaxDetections == 4

Nodes == DOMAIN SnapshotLines

\* The files: their nodes start on the lines of the snapshot, later nodes
\* (in pre-order) not before earlier ones.
FileNodeLines ==
    { SnapshotLines,
      [n \in Nodes |-> SnapshotLines[IF n = 3 THEN 2 ELSE n]] }

\* What the rules can detect: each rule's first pattern at every node, and
\* the second pattern of the snapshot's rule at node 2.
Detections ==
    { d \in [rule_id : RuleIds, node : Nodes, pattern : {0, 1}] :
        d.pattern = 1 => (d.rule_id = SnapshotRule /\ d.node = 2) }

InitReport ==
    /\ nodeLine \in FileNodeLines
    /\ store = <<>>
    /\ report = <<>>
    /\ reportPc = "scanning"
    /\ target = Idle /\ input = Idle /\ decoded = Idle /\ yamlPc = Idle
    /\ rule = Idle /\ ret = Idle /\ rulePc = Idle
    /\ opts = Idle /\ env = Idle /\ policies = Idle
    /\ config = Idle /\ err = Idle /\ configPc = Idle
    /\ outConfig = Idle /\ outEnv = Idle /\ calls = Idle /\ data = Idle
    /\ dataErr = Idle /\ client = Idle /\ formatted = Idle /\ outPc = Idle

\* insert(detection): idempotent on (rule_id, node).
Insert(d) ==
    /\ reportPc = "scanning"
    /\ Len(store) < MaxDetections
    /\ ~ \E i \in 1..Len(store) : store[i].rule_id = d.rule_id /\ store[i].node = d.node
    /\ store' = Append(store, d)
    /\ UNCHANGED <<nodeLine, report, reportPc, yamlVars, ruleVars, configVars, outputVars>>

\* The store is drained into the report.
Emit ==
    /\ reportPc = "scanning"
    /\ report' = [i \in 1..Len(store) |-> Finding(StableOrder(store)[i], nodeLine)]
    /\ reportPc' = "emitted"
    /\ UNCHANGED <<nodeLine, store, yamlVars, ruleVars, configVars, outputVars>>

NextReport == (\E d \in Detections : Insert(d)) \/ Emit

SpecReport == InitReport /\ [][NextReport]_vars

\* C10: the detections of one file are emitted in a stable order: the report
\* holds the detections of the store, each once, in the one order of their
\* keys whatever the order they were produced in, and the findings of one
\* rule appear in ascending line_number order.
C10_FindingsInLineOrder ==
    reportPc = "emitted" =>
        /\ Len(report) = Len(store)
        /\ \A i \in 1..Len(store) :
              \E j \in 1..Len(report) : report[j] = Finding(store[i], nodeLine)
        /\ \A i, j \in 1..Len(report) :
              i < j =>
                 /\ report[i] # report[j]
                 /\ report[i].rule_id = report[j].rule_id =>
                        /\ report[i].line_number <= report[j].line_number
                        /\ report[i].node < report[j].node

\* C10 witness: the four detections of the snapshot's rule, produced last
\* line first, are reported on lines 2, 6, 7, 11.
C10_Witness ==
    /\ reportPc = "emitted"
    /\ Len(store) = 4
    /\ \A i \in 1..4 : store[i].rule_id = SnapshotRule /\ store[i].node = 5 - i
    /\ [i \in 1..4 |-> report[i].line_number] = SnapshotLines

(***************************************************************************)
(* GetData and FormatOutput of the output package.                         *)
(*                                                                         *)
(* The report packages (detectors, dataflow, security, saas, privacy,      *)
(* stats) are what GetData calls: each call either fails or succeeds, as   *)
(* outEnv says. A pointer is a sequence of length 0 (nil) or 1. A string   *)
(* that FormatOutput builds is the sequence of the pieces it is made of.   *)
(***************************************************************************)
ReportDetectors == "detectors"

ReportDataFlow == "dataflow"

ReportSaaS == "saas"

ReportStats == "stats"

\* The report kinds FormatOutput has a formatter for.
FormattedReports ==
    {ReportDetectors, ReportDataFlow, ReportSecurity, ReportPrivacy, ReportSaaS, ReportStats}

Call(fn, arg) == [fn |-> fn, arg |-> arg]

\* The error of a call of a report package: the stage that failed, or nil.
StageError(e, stage) == IF stage \in e.failing THEN stage \o " failed" ELSE "nil"

\* &types.ReportData{}
ZeroReportData == [Detectors |-> [isNil |-> TRUE, items |-> <<>>], SendToCloud |-> FALSE]

\* detectors.AddReportData(data, report, config); GetDataflow's call of it
\* is the second attempt.
detectorsAddReportData(e, r, attempt) ==
    LET error == StageError(e, IF attempt = 1 THEN "detectors" ELSE "detectors again")
    IN  [r EXCEPT !.calls = Append(@, Call("detectors.AddReportData", "")),
                  !.data.Detectors = IF error = "nil" THEN e.detections ELSE @,
                  !.err = error]

\* A call of a report package that adds its part to the data.
addReportData(e, r, fn, arg, stage) ==
    [r EXCEPT !.calls = Append(@, Call(fn, arg)), !.err = StageError(e, stage)]

\* The loop that gives every detection an id.
assignIds(detections) ==
    [detections EXCEPT !.items = [i \in DOMAIN @ |-> [@[i] EXCEPT !.id = "uuid"]]]

\* GetDataflow(reportData, report, config, isInternal)
getDataflow(e, r, isInternal) ==
    LET again == IF r.data.Detectors.isNil
                 THEN detectorsAddReportData(e, r, 2)
                 ELSE r
    IN  IF r.data.Detectors.isNil /\ again.err # "nil" THEN again
        ELSE addReportData(e, [again EXCEPT !.data.Detectors = assignIds(@)],
                           "dataflow.AddReportData",
                           IF isInternal THEN "internal" ELSE "not internal",
                           "dataflow")

\* The end of GetData: the upload to the cloud. saas.SendReport leaves its
\* failure in config.Client.Error.
upload(e, r, attemptCloudUpload) ==
    IF attemptCloudUpload /\ r.client # <<>> /\ r.client[1].Error = "nil"
    THEN [r EXCEPT !.data.SendToCloud = TRUE,
                   !.calls = Append(@, Call("saas.SendReport", "")),
                   !.client = <<[Error |-> e.sendError]>>]
    ELSE r

ReturnNil(r, error) == [r EXCEPT !.nilData = TRUE, !.err = error]

\* The report-specific stage of GetData and what follows it.
reportSpecific(e, cfg, r) ==
    CASE cfg.Report = ReportDataFlow -> r
      [] cfg.Report = ReportSecurity ->
            upload(e, addReportData(e, r, "security.AddReportData", "", "security"), TRUE)
      [] cfg.Report = ReportSaaS ->
            LET secured == addReportData(e, r, "security.AddReportData", "", "security")
            IN  IF secured.err # "nil" THEN ReturnNil(secured, secured.err)
                ELSE upload(e, addReportData(e, secured, "saas.GetReport", "", "saas"), TRUE)
      [] cfg.Report = ReportPrivacy ->
            upload(e, addReportData(e, r, "privacy.AddReportData", "", "privacy"), FALSE)
      [] cfg.Report = ReportStats ->
            upload(e, addReportData(e, r, "stats.AddReportData", "", "stats"), FALSE)
      [] OTHER -> ReturnNil(r, "--report flag is not supported")

\* GetData with the error of GetDataflow not looked at.
getData_DataflowErrorDropped(e, cfg) ==
    LET start == [calls |-> <<>>, data |-> ZeroReportData, nilData |-> FALSE,
                  err |-> "nil", client |-> cfg.Client]
        detected == detectorsAddReportData(e, start, 1)
    IN  IF cfg.Report = ReportDetectors \/ detected.err # "nil" THEN detected
        ELSE reportSpecific(e, cfg, getDataflow(e, detected, cfg.Report # ReportDataFlow))

\* GetData(report, config, baseBranchFindings): the calls made, the data and
\* the error returned (nilData: the data pointer returned is nil), and what
\* config.Client points to afterwards.
getData(e, cfg) ==
    LET start == [calls |-> <<>>, data |-> ZeroReportData, nilData |-> FALSE,
                  err |-> "nil", client |-> cfg.Client]
        detected == detectorsAddReportData(e, start, 1)
    IN  IF cfg.Report = ReportDetectors \/ detected.err # "nil" THEN detected
        ELSE LET flowed == getDataflow(e, detected, cfg.Report # ReportDataFlow)
             IN  IF flowed.err # "nil" THEN flowed
                 ELSE reportSpecific(e, cfg, flowed)

CachedDataWarning ==
    "Cached data used (no code changes detected). Unexpected? Use --force to force a re-scan."

CloudSuccess == "Data successfully sent to Bearer Cloud."

CloudFailure == "Failed to send data to Bearer Cloud. "

Formatted(str, error) == [panic |-> FALSE, str |-> str, err |-> error]

\* The messages with the quiet flag not looked at.
appendMessages_QuietIgnored(quiet, reportData, c, cacheUsed, formatStr) ==
    IF reportData.SendToCloud \/ cacheUsed
    THEN LET cached == IF cacheUsed THEN formatStr \o <<"\n\n", CachedDataWarning>>
                       ELSE formatStr
         IN  IF reportData.SendToCloud /\ c = <<>>
             THEN [panic |-> TRUE, str |-> <<>>, err |-> "nil"]
             ELSE LET cloud ==
                          IF ~reportData.SendToCloud THEN cached
                          ELSE IF c[1].Error = "nil"
                               THEN cached \o <<"\n\n", CloudSuccess>>
                               ELSE cached \o <<"\n\n", CloudFailure, c[1].Error, " ">>
                  IN  Formatted(cloud \o <<"\n">>, "nil")
    ELSE Formatted(formatStr, "nil")

\* The messages FormatOutput adds to the formatter's string; c is what
\* config.Client points to, and reading the error of a nil client panics.
appendMessages(quiet, reportData, c, cacheUsed, formatStr) ==
    IF ~quiet /\ (reportData.SendToCloud \/ cacheUsed)
    THEN LET cached == IF cacheUsed THEN formatStr \o <<"\n\n", CachedDataWarning>>
                       ELSE formatStr
         IN  IF reportData.SendToCloud /\ c = <<>>
             THEN [panic |-> TRUE, str |-> <<>>, err |-> "nil"]
             ELSE LET cloud ==
                          IF ~reportData.SendToCloud THEN cached
                          ELSE IF c[1].Error = "nil"
                               THEN cached \o <<"\n\n", CloudSuccess>>
                               ELSE cached \o <<"\n\n", CloudFailure, c[1].Error, " ">>
                  IN  Formatted(cloud \o <<"\n">>, "nil")
    ELSE Formatted(formatStr, "nil")

\* FormatOutput(reportData, config, cacheUsed, ...); format is what
\* formatter.Format(config.Report.Format) returns.
formatOutput(reportData, cfg, c, cacheUsed, format) ==
    IF cfg.Report \notin FormattedReports
    THEN Formatted(<<>>, "--report flag is not supported")
    ELSE IF format.err # "nil" THEN Formatted(format.str, format.err)
    ELSE IF format.str = <<>>
         THEN Formatted(<<>>, "--report flag does not support --format flag")
    ELSE appendMessages(cfg.Quiet, reportData, c, cacheUsed, format.str)

\* The most calls of the report packages that fail in one run.
MaxFailures == 1

Stages == {"detectors", "detectors again", "dataflow", "security", "saas", "privacy", "stats"}

FailingStages == { f \in SUBSET Stages : Cardinality(f) <= MaxFailures }

\* What the detectors stage leaves in data.Detectors when it succeeds.
DetectionSlices ==
    { [isNil |-> TRUE, items |-> <<>>],
      [isNil |-> FALSE, items |-> <<>>],
      [isNil |-> FALSE, items |-> <<[detector_type |-> "ruby", id |-> ""]>>] }

\* What formatter.Format returns.
FormatResults ==
    { [str |-> <<"report">>, err |-> "nil"],
      [str |-> <<>>, err |-> "nil"],
      [str |-> <<>>, err |-> "could not generate report"] }

\* config.Client: nil, a client, a client that failed to authenticate.
Clients == { <<>>, <<[Error |-> "nil"]>>, <<[Error |-> "invalid api key"]>> }

OutputConfigs ==
    [Report : FormattedReports \cup {"sarif"},
     Client : Clients,
     Quiet : BOOLEAN]

OutputEnvs ==
    [failing : FailingStages,
     detections : DetectionSlices,
     sendError : {"nil", "report upload failed"},
     cacheUsed : BOOLEAN,
     format : FormatResults]

InitOutput ==
    /\ outConfig \in OutputConfigs
    /\ outEnv \in OutputEnvs
    /\ calls = <<>> /\ data = Idle /\ dataErr = Idle /\ client = outConfig.Client
    /\ formatted = Idle
    /\ outPc = "start"
    /\ target = Idle /\ input = Idle /\ decoded = Idle /\ yamlPc = Idle
    /\ rule = Idle /\ ret = Idle /\ rulePc = Idle
    /\ opts = Idle /\ env = Idle /\ policies = Idle
    /\ config = Idle /\ err = Idle /\ configPc = Idle
    /\ nodeLine = Idle /\ store = Idle /\ report = Idle /\ reportPc = Idle

GetData ==
    /\ outPc = "start"
    /\ LET r == getData(outEnv, outConfig)
       IN  /\ calls' = r.calls
           /\ data' = IF r.nilData THEN <<>> ELSE <<r.data>>
           /\ dataErr' = r.err
           /\ client' = r.client
    /\ outPc' = "data"
    /\ UNCHANGED <<outConfig, outEnv, formatted, yamlVars, ruleVars, configVars, reportVars>>

\* FormatOutput reads the fields of reportData: it is called with the data
\* GetData returned when that is not nil.
FormatOutput ==
    /\ outPc = "data"
    /\ data # <<>>
    /\ formatted' = formatOutput(data[1], outConfig, client, outEnv.cacheUsed, outEnv.format)
    /\ outPc' = "formatted"
    /\ UNCHANGED <<outConfig, outEnv, calls, data, dataErr, client,
                   yamlVars, ruleVars, configVars, reportVars>>

NextOutput == GetData \/ FormatOutput

SpecOutput == InitOutput /\ [][NextOutput]_vars

HasPiece(str, piece) == \E i \in DOMAIN str : str[i] = piece

CachedWarningAdded == HasPiece(formatted.str, CachedDataWarning)

CloudMessageAdded ==
    HasPiece(formatted.str, CloudSuccess) \/ HasPiece(formatted.str, CloudFailure)

\* The formatter of the report kind returned a non-empty string and no error.
FormatterSucceeded ==
    /\ outConfig.Report \in FormattedReports
    /\ outEnv.format.err = "nil"
    /\ outEnv.format.str # <<>>

\* What FormatOutput returns after a formatter that succeeded.
ExpectedOutput ==
    LET cached == IF outEnv.cacheUsed THEN <<"\n\n", CachedDataWarning>> ELSE <<>>
        cloud == IF ~data[1].SendToCloud THEN <<>>
                 ELSE IF client[1].Error = "nil" THEN <<"\n\n", CloudSuccess>>
                 ELSE <<"\n\n", CloudFailure, client[1].Error, " ">>
    IN  IF ~outConfig.Quiet /\ (data[1].SendToCloud \/ outEnv.cacheUsed)
        THEN outEnv.format.str \o cached \o cloud \o <<"\n">>
        ELSE outEnv.format.str

\* C12: FormatOutput appends the cached-data warning exactly when the scan is
\* not quiet and cacheUsed is true, appends a cloud message exactly when the
\* scan is not quiet and reportData.SendToCloud is true, and returns the
\* formatter's string unchanged when the scan is quiet or neither flag is set.
C12_MessagesExactlyWhenFlagged ==
    outPc = "formatted" =>
        /\ CachedWarningAdded <=> (~outConfig.Quiet /\ outEnv.cacheUsed)
        /\ CloudMessageAdded <=> (~outConfig.Quiet /\ data[1].SendToCloud)
        /\ (/\ outConfig.Report \in FormattedReports
            /\ outConfig.Quiet \/ (~outEnv.cacheUsed /\ ~data[1].SendToCloud))
               => formatted.str = outEnv.format.str

\* C12, amended: when the formatter of the report kind returned a non-empty
\* string and no error, FormatOutput appends the cached-data warning exactly
\* when the scan is not quiet and cacheUsed is true, a cloud message exactly
\* when the scan is not quiet and reportData.SendToCloud is true, and one
\* newline after them; it returns the formatter's string unchanged when the
\* scan is quiet or neither flag is set; when the formatter failed or returned
\* the empty string nothing is appended, whatever the flags.
C12_MessagesAfterFormatting ==
    outPc = "formatted" =>
        /\ ~formatted.panic
        /\ CachedWarningAdded <=>
               (FormatterSucceeded /\ ~outConfig.Quiet /\ outEnv.cacheUsed)
        /\ CloudMessageAdded <=>
               (FormatterSucceeded /\ ~outConfig.Quiet /\ data[1].SendToCloud)
        /\ FormatterSucceeded =>
               (formatted.err = "nil" /\ formatted.str = ExpectedOutput)
        /\ (/\ outConfig.Report \in FormattedReports
            /\ outConfig.Quiet \/ (~outEnv.cacheUsed /\ ~data[1].SendToCloud))
               => formatted.str = outEnv.format.str
        /\ ~FormatterSucceeded =>
               (formatted.err # "nil" /\ Len(formatted.str) <= Len(outEnv.format.str))

\* C12 witness: a report that was not quiet, came from the cache and whose
\* upload failed carries the warning, the failure message and the newline.
C12_Witness ==
    /\ outPc = "formatted"
    /\ ~outConfig.Quiet /\ outEnv.cacheUsed /\ data[1].SendToCloud
    /\ formatted.str = <<"report", "\n\n", CachedDataWarning,
                         "\n\n", CloudFailure, "report upload failed", " ", "\n">>

\* The stage a call of GetData belongs to; GetDataflow's own call of the
\* detectors is the second attempt.
StageOf(i) ==
    CASE calls[i].fn = "detectors.AddReportData" ->
             IF i = 1 THEN "detectors" ELSE "detectors again"
      [] calls[i].fn = "dataflow.AddReportData" -> "dataflow"
      [] calls[i].fn = "security.AddReportData" -> "security"
      [] calls[i].fn = "saas.GetReport" -> "saas"
      [] calls[i].fn = "privacy.AddReportData" -> "privacy"
      [] calls[i].fn = "stats.AddReportData" -> "stats"
      [] OTHER -> "upload"

\* A stage that GetData ran returned an error.
BuildFailed == \E i \in DOMAIN calls : StageOf(i) \in outEnv.failing

SendReportCalled == \E i \in DOMAIN calls : calls[i].fn = "saas.SendReport"

SendToCloudSet == data # <<>> /\ data[1].SendToCloud

\* C13: GetData sets SendToCloud and calls saas.SendReport only when the
\* report kind is security or saas, an API client is configured with no client
\* error, and every stage that built the report data returned without error:
\* a report whose data failed to build is never sent to the cloud.
C13_SentOnlyWhenBuilt ==
    (outPc # "start" /\ (SendReportCalled \/ SendToCloudSet)) =>
        /\ outConfig.Report \in {ReportSecurity, ReportSaaS}
        /\ outConfig.Client # <<>>
        /\ outConfig.Client[1].Error = "nil"
        /\ ~BuildFailed
        /\ dataErr = "nil"

\* The place of a call in the order of GetData's stages.
StageRank(i) ==
    CASE StageOf(i) \in {"detectors", "detectors again"} -> 1
      [] StageOf(i) = "dataflow" -> 2
      [] StageOf(i) \in {"security", "saas", "privacy", "stats"} -> 3
      [] OTHER -> 4

ReportSpecificCall(i) == StageRank(i) = 3

\* What GetData does before the report-specific stage, for every kind.
StagesInOrder ==
    /\ Len(calls) >= 1 /\ StageOf(1) = "detectors"
    /\ \A i, j \in DOMAIN calls : i < j => StageRank(i) <= StageRank(j)
    /\ outConfig.Report = ReportDetectors =>
           (calls = <<Call("detectors.AddReportData", "")>> /\ data # <<>>)
    /\ outConfig.Report = ReportDataFlow =>
           \A i \in DOMAIN calls : ~ReportSpecificCall(i)
    /\ \A j \in DOMAIN calls : ReportSpecificCall(j) =>
           /\ \E i \in 1..(j - 1) : StageOf(i) = "detectors"
           /\ \E i \in 1..(j - 1) : StageOf(i) = "dataflow"
           /\ \A i \in 1..(j - 1) : StageRank(i) < 3 => StageOf(i) \notin outEnv.failing

\* C14: GetData runs its stages in the fixed order detectors, dataflow,
\* report-specific stage: for the detectors report it returns after the
\* detectors stage, for the dataflow report it runs no report-specific stage,
\* for every other kind the report-specific stage runs only after detectors
\* and dataflow both succeeded, and an unsupported kind yields nil data with
\* an error.
C14_StagesThenNilForUnsupported ==
    outPc # "start" =>
        /\ StagesInOrder
        /\ outConfig.Report \notin FormattedReports =>
               (data = <<>> /\ dataErr # "nil")

\* C14, amended: the stages run in the order detectors, dataflow,
\* report-specific stage as above; an unsupported kind always yields an error,
\* with nil data when detectors and dataflow both succeeded, and with the data
\* built so far and the error of the stage when one of them failed.
C14_StagesThenErrorForUnsupported ==
    outPc # "start" =>
        /\ StagesInOrder
        /\ outConfig.Report \notin FormattedReports =>
               /\ dataErr # "nil"
               /\ \A i \in DOMAIN calls : StageRank(i) < 3
               /\ data = <<>> <=> ~BuildFailed
               /\ ~BuildFailed =>
                      (/\ dataErr = "--report flag is not supported"
                       /\ \E i \in DOMAIN calls : StageOf(i) = "dataflow")
               /\ BuildFailed =>
                      (\E i \in DOMAIN calls : dataErr = StageError(outEnv, StageOf(i)))

\* C14 witness: for an unsupported kind the detectors ran twice (the first
\* run left no detections), then dataflow, and GetData returned nil data.
C14_Witness ==
    /\ outPc = "data"
    /\ outConfig.Report = "sarif"
    /\ calls = <<Call("detectors.AddReportData", ""),
                 Call("detectors.AddReportData", ""),
                 Call("dataflow.AddReportData", "internal")>>
    /\ data = <<>>
    /\ dataErr = "--report flag is not supported"

====
